---- MODULE Spec2Model ----
(***************************************************************************)
(* Model of the streaming chat relay of the real-estate assistant backend. *)
(*                                                                         *)
(*   backend/app/api/routers/chat.py     chat, event_generator             *)
(*   backend/app/api/api_utils.py        build_context_from_index,         *)
(*                                       build_message_sequence            *)
(*   backend/app/clients/llm_client.py   LLMClient.stream_chat             *)
(*                                                                         *)
(* One chat request is followed from validation to the end of the relay.   *)
(* stream_chat is a synchronous generator: it runs on the stack of the     *)
(* relay's `for token in response`, so a yield, a return or a raise of the *)
(* generator and the relay's reaction to it are one step.  Nothing of its  *)
(* body runs before the first pull.                                        *)
(*                                                                         *)
(* A line of the response body is a sequence of characters.  The           *)
(* characters that matter to lstrip("data: ") are kept one by one; the     *)
(* text "[DONE]" and the text of one JSON object are each one token,       *)
(* because no character inside them is ever looked at separately.          *)
(***************************************************************************)
EXTENDS Integers, Sequences, FiniteSets, TLC

\* ---------------------------------------------------------------- bounds
MaxLines == 3        \* longest response body, in lines
MaxMsgs == 2         \* longest request message list
MaxErrorLines == 1   \* longest body of a response whose status is not 2xx
MaxPairLines == 2    \* longest response body when two requests run together

\* ------------------------------------------------------- request schema
\* schema.py: Message.role is a MessageRole
MessageRole == {"system", "user", "assistant"}

Message == [role : MessageRole, content : {"q"}]

SeqsUpTo(S, n) == UNION {[1..k -> S] : k \in 0..n}

\* ------------------------------------------------- response body lines
\* the argument of line.lstrip("data: "): a set of characters
StripChars == {"d", "a", "t", ":", " "}

DONE == <<"[DONE]">>

\* JSON objects a frame can hold.  delta: is choices[0].delta present;
\* role / content: the keys of the delta object ("" = key absent for role).
JsonBody ==
  [ Ja |-> [hasDelta |-> TRUE,  role |-> "assistant", hasContent |-> TRUE,  content |-> "a"],
    Jb |-> [hasDelta |-> TRUE,  role |-> "assistant", hasContent |-> TRUE,  content |-> "b"],
    Jr |-> [hasDelta |-> TRUE,  role |-> "assistant", hasContent |-> FALSE, content |-> ""],
    Jc |-> [hasDelta |-> TRUE,  role |-> "",          hasContent |-> TRUE,  content |-> "a"],
    Je |-> [hasDelta |-> TRUE,  role |-> "",          hasContent |-> FALSE, content |-> ""],
    Jn |-> [hasDelta |-> FALSE, role |-> "",          hasContent |-> FALSE, content |-> ""] ]

JsonTokens == DOMAIN JsonBody

Prefix == <<"d", "a", "t", "a", ":", " ">>

\* the lines the inference server may send
LineSet ==
  { <<>>,                       \* blank keep-alive line
    Prefix \o <<"Ja">>,         \* data: {role, content "a"}
    <<"Jb">>,                   \* {role, content "b"} without prefix
    Prefix \o <<"Jr">>,         \* data: {role} without content
    Prefix \o <<"Je">>,         \* data: {"delta": {}}
    <<"Jc">>,                   \* {content "a"} without role
    Prefix \o DONE,             \* data: [DONE]
    DONE,                       \* [DONE]
    Prefix \o <<"x">> }         \* data: x        (not JSON)

\* more lines the inference server may send: whitespace only, a frame
\* without choices[0].delta, a doubled prefix, and lines whose text begins
\* with letters of "data: "
ParserLineSet ==
  { <<>>,
    <<" ">>,                            \* one space
    Prefix \o <<"Ja">>,
    Prefix \o <<"Je">>,
    Prefix \o <<"Jr">>,
    Prefix \o <<"Jn">>,                 \* data: {"choices": [{}]}
    Prefix \o DONE,
    Prefix \o Prefix \o <<"Jb">>,       \* data: data: {...}
    <<"a", "Jb">>,                      \* a{...}
    Prefix \o <<"t", "x">>,             \* data: tx      (not JSON)
    Prefix \o <<"x">> }

\* str.lstrip(chars): drop leading characters while they are in chars
RECURSIVE lstrip(_, _)
lstrip(s, chars) ==
  IF s # <<>> /\ Head(s) \in chars THEN lstrip(Tail(s), chars) ELSE s

\* JSON whitespace around the value is accepted by json.loads
RECURSIVE rstripSpace(_)
rstripSpace(s) ==
  IF s # <<>> /\ s[Len(s)] = " " THEN rstripSpace(SubSeq(s, 1, Len(s) - 1)) ELSE s

JsonValue(s) == rstripSpace(lstrip(s, {" "}))

\* json.loads(s) succeeds iff s is one JSON value
json_loads_ok(s) == Len(JsonValue(s)) = 1 /\ JsonValue(s)[1] \in JsonTokens

json_loads(s) == JsonBody[JsonValue(s)[1]]

\* llm_client.py 139: line = line.lstrip("data: ")
StripPrefix(line) == lstrip(line, StripChars)

\* mutant of InitialText: the running text of the call before is kept
InitialTextKept(before) == before

\* llm_client.py 134: text = "" (whatever the name held before)
InitialText(before) == ""

\* mutant of IsSentinel: the sentinel is compared in the wrong case
IsSentinelLowerCase(s) == s = <<"[done]">>

\* llm_client.py 141: if line == "[DONE]"
IsSentinel(s) == s = DONE

\* mutant of OnParseFailure: the unparsable line is dropped and reading goes on
OnParseFailureSkip(s, text) == [kind |-> "skip", text |-> text]

\* llm_client.py 144: json.loads raises, nothing in stream_chat catches it
OnParseFailure(s, text) ==
  [kind |-> "raise", text |-> text,
   error |-> [type |-> "JSONDecodeError", doc |-> s, status |-> 0]]

\* mutant of Accumulate: text = delta, as astream_complete does
AccumulateOverwrite(text, delta) == delta

\* llm_client.py 149: text += delta
Accumulate(text, delta) == text \o delta

\* mutant of ChatResponse: the snapshot carries the delta as its content
ChatResponseDeltaAsContent(text, delta, raw) ==
  [text |-> delta, delta |-> delta, raw |-> raw]

\* llm_client.py 152-161: ChatResponse(message=ChatMessage(content=text, ...),
\* delta=delta, raw=body, ...)
ChatResponse(text, delta, raw) == [text |-> text, delta |-> delta, raw |-> raw]

\* One pass of the body of `for line in response.iter_lines()` on one line,
\* with the running text.  kind: "skip" (next line), "break", "yield",
\* "raise".
LineStep(line, text) ==
  IF line = <<>> THEN [kind |-> "skip", text |-> text]
  ELSE LET s == StripPrefix(line) IN
    IF IsSentinel(s) THEN [kind |-> "break", text |-> text]
    ELSE IF ~json_loads_ok(s) THEN OnParseFailure(s, text)
    ELSE LET body == json_loads(s) IN
      IF ~body.hasDelta
        \* message = "" and "".get(...) has no attribute get
        THEN [kind |-> "raise", text |-> text,
              error |-> [type |-> "AttributeError", doc |-> s, status |-> 0]]
      ELSE LET delta == IF body.hasContent THEN body.content ELSE ""
               newText == Accumulate(text, delta)
               truthy == body.hasContent \/ body.role # ""
           IN IF ~truthy THEN [kind |-> "skip", text |-> newText]
              ELSE IF body.role \notin MessageRole
                \* MessageRole(None)
                THEN [kind |-> "raise", text |-> newText,
                      error |-> [type |-> "ValueError", doc |-> s, status |-> 0]]
              ELSE [kind |-> "yield", text |-> newText, delta |-> delta,
                    raw |-> JsonValue(s)[1]]

\* mutant of build_context_from_index: the nodes are taken last to first
RECURSIVE buildContextReversed(_)
buildContextReversed(nodes) ==
  IF nodes = <<>> THEN ""
  ELSE buildContextReversed(Tail(nodes)) \o Head(nodes) \o " "

\* api_utils.py build_context_from_index: context = context + node.text + " "
RECURSIVE build_context_from_index(_)
build_context_from_index(nodes) ==
  IF nodes = <<>> THEN ""
  ELSE build_context_from_index(SubSeq(nodes, 1, Len(nodes) - 1))
         \o nodes[Len(nodes)] \o " "

\* mutant of build_message_sequence: the question stays in the list as well
buildMessageSequenceKeepLast(data, ctx, last) ==
  [i \in 1..Len(data) |-> [role |-> data[i].role, content |-> data[i].content]]
    \o << [role |-> last.role, content |-> last.content],
          [role |-> "user",
           content |-> "[CONTEXT]: " \o ctx \o " [QUESTION]: " \o last.content] >>

\* api_utils.py build_message_sequence: the request's remaining messages
\* converted one by one, then the synthesized user message
build_message_sequence(data, ctx, last) ==
  [i \in 1..Len(data) |-> [role |-> data[i].role, content |-> data[i].content]]
    \o << [role |-> "user",
           content |-> "[CONTEXT]: " \o ctx \o " [QUESTION]: " \o last.content] >>

\* what retriever.retrieve can return with similarity_top_k = 2
NodeLists == {<<>>, <<"p", "r">>}

\* api_utils.py 22: index.as_retriever(similarity_top_k=2)
similarity_top_k == 2

\* every answer of the retriever over two passage texts, duplicates included
PassageTexts == {"p", "r s"}
AllNodeLists == SeqsUpTo(PassageTexts, similarity_top_k)

\* request messages with two different contents
AnyMessage == [role : MessageRole, content : {"q", "h"}]

\* statuses the inference server may answer with
StatusSet == {200, 302, 503}

\* mutant of raises_for_status: only client and server errors raise
raisesForErrorsOnly(st) == st >= 400

\* llm_client.py 133: response.raise_for_status() raises HTTPStatusError
\* unless the status is a success (2xx)
raises_for_status(st) == ~(200 <= st /\ st <= 299)

\* mutant of AfterValidate: the empty list is not rejected before retrieval
AfterValidateNoRaise(msgs) == IF Len(msgs) = 0 THEN "retrieve" ELSE "extract"

\* chat.py 44: len(data.messages) == 0 raises, otherwise the handler goes on
AfterValidate(msgs) == IF Len(msgs) = 0 THEN "http400" ELSE "extract"

\* mutant of LastRoleOk: only an assistant message is rejected
LastRoleNotAssistant(m) == m.role # "assistant"

\* chat.py 53: lastMessage.role != MessageRole.USER raises
LastRoleOk(m) == m.role = "user"

\* mutant of AfterExtract: the handler goes on without retrieval
AfterExtractNoRetrieval(m) == IF ~LastRoleOk(m) THEN "http400" ELSE "assemble"

\* chat.py 53-60: after the role check comes build_context_from_index
AfterExtract(m) == IF ~LastRoleOk(m) THEN "http400" ELSE "retrieve"

\* mutant of AfterRetrieveFailure: the failure is caught, the context is empty
AfterRetrieveFailureSwallow == "assemble"

\* chat.py 60, api_utils.py 25: the call is in no try block, the exception
\* of retriever.retrieve leaves chat
AfterRetrieveFailure == "raised"

\* mutant of ConnAfterExit: the connection is not closed when the body ends
ConnAfterExitLeak == "open"

\* llm_client.py 127-132: leaving the two `with` blocks, by return or by
\* exception, closes the response and the client
ConnAfterExit == "closed"

\* mutant of ShouldBreak: the liveness check never stops the relay
ShouldBreakNever(isDisconnected) == FALSE

\* chat.py 71-72: if await request.is_disconnected(): break
ShouldBreak(isDisconnected) == isDisconnected

\* mutant of RelayOnRaise: the relay catches the exception and ends normally
RelayOnRaiseSwallow == "done"

\* chat.py 69: `for token in response` is in no try block: an exception of
\* the generator leaves event_generator as that exception
RelayOnRaise == "failed"

\* mutant of RelayChunk: the accumulated text is relayed
RelayChunkText(tok) == tok.text

\* chat.py 73: yield token.delta
RelayChunk(tok) == tok.delta

NoMessage == [role |-> "", content |-> ""]
NoToken == [text |-> "", delta |-> "", raw |-> ""]
NoError == [type |-> "", doc |-> <<>>, status |-> 0]

\* the chat requests that run at the same time
Req == {1, 2}

\* mutant of ClientOf: every call uses one client and one connection
ClientShared(r) == 1

\* llm_client.py 127-128: each call of stream_chat makes its own httpx.Client
\* and its own stream
ClientOf(r) == r

\* a request whose generator is made and has not run (chat.py 65)
NoSession == [genPc |-> "created", conn |-> 0, status |-> 0, body |-> <<>>,
              text |-> "", snaps |-> <<>>, relayed |-> <<>>]
\* a connection no call has opened
NoConn == [state |-> "none", lines |-> <<>>, idx |-> 0]

\* a completion generator that has not been made
\* (lineCuts: every piece it was given so far was exactly one line)
NoCompletion == [pc |-> "none", idx |-> 0, text |-> "", snaps |-> <<>>,
                 error |-> "", lineCuts |-> TRUE]

\* ------------------------------------------------------------------ state
VARIABLES
  request,       \* the message list of the request as it was received
  nodes,         \* the texts of the nodes retriever.retrieve returned
  oracleFailed,  \* retriever.retrieve has raised
  pc,            \* position of the chat handler
  messages,      \* data.messages (the handler pops its last element)
  lastMessage,   \* chat's lastMessage
  context,       \* chat's context
  llmMessages,   \* chat's messages, the argument of llm.stream_chat
  oracleCalls,   \* calls of retriever.retrieve
  llmCalls,      \* calls of llm.stream_chat
  httpError,     \* detail of the HTTPException raised by chat, or the fault
  genPc,         \* position of the stream_chat generator
  conn,          \* the upstream HTTP connection: "none", "open", "closed"
  requestsSent,  \* POST requests sent to the inference server
  status,        \* status of the upstream response
  lines,         \* the lines of the upstream response body
  lineIdx,       \* lines taken from response.iter_lines() so far
  curLine,       \* stream_chat's line, as it is after line 139
  text,          \* stream_chat's running text
  snaps,         \* the ChatResponse values yielded so far
  genError,      \* the exception stream_chat ended with
  relayPc,       \* position of event_generator
  token,         \* event_generator's token
  relayed,       \* chunks yielded by event_generator
  disconnected,  \* what request.is_disconnected() answers
  discRelayed,   \* Len(relayed) when the client disconnected (-1: not yet)
  discLineIdx,   \* lineIdx when the client disconnected (-1: not yet)
  session,       \* which stream_chat call of the client object this is
  firstStatus,   \* the status the first call's response had
  firstLines,    \* the lines the first call's response had
  firstSnaps,    \* the ChatResponse values the first call yielded
  sess,          \* two concurrent requests: each one's generator and relay
  pconn,         \* two concurrent requests: the upstream connections
  cInput,        \* completion: the status and lines the server answers with
  syncC,         \* the stream_complete generator
  asyncC         \* the astream_complete generator

handlerVars == <<request, nodes, oracleFailed, pc, messages, lastMessage, context, llmMessages, oracleCalls,
                 llmCalls, httpError>>
genVars == <<genPc, conn, requestsSent, status, lines, lineIdx, curLine, text,
             snaps, genError>>
relayVars == <<relayPc, token, relayed>>
clientVars == <<disconnected, discRelayed, discLineIdx>>
sessionVars == <<session, firstStatus, firstLines, firstSnaps>>
pairVars == <<sess, pconn>>
completeVars == <<cInput, syncC, asyncC>>
vars == <<handlerVars, genVars, relayVars, clientVars, sessionVars, pairVars,
          completeVars>>

\* the state when chat is entered with a request whose messages are in M
InitWith(M) ==
  /\ pc = "validate"
  /\ request \in SeqsUpTo(M, MaxMsgs)
  /\ nodes = <<>>
  /\ oracleFailed = FALSE
  /\ messages = request
  /\ lastMessage = NoMessage
  /\ context = ""
  /\ llmMessages = <<>>
  /\ oracleCalls = 0
  /\ llmCalls = 0
  /\ httpError = ""
  /\ genPc = "none"
  /\ conn = "none"
  /\ requestsSent = 0
  /\ status = 0
  /\ lines = <<>>
  /\ lineIdx = 0
  /\ curLine = <<>>
  /\ text = ""
  /\ snaps = <<>>
  /\ genError = NoError
  /\ relayPc = "none"
  /\ token = NoToken
  /\ relayed = <<>>
  /\ disconnected = FALSE
  /\ discRelayed = -1
  /\ discLineIdx = -1
  /\ session = 1
  /\ firstStatus = 0
  /\ firstLines = <<>>
  /\ firstSnaps = <<>>
  /\ sess = [r \in Req |-> NoSession]
  /\ pconn = [c \in Req |-> NoConn]
  /\ cInput = [status |-> 0, lines |-> <<>>]
  /\ syncC = NoCompletion
  /\ asyncC = NoCompletion

Init == InitWith(Message)

\* ------------------------------------------------------ chat (the handler)
\* chat.py 44-48: if len(data.messages) == 0: raise HTTPException(400)
Validate ==
  /\ UNCHANGED <<sessionVars, pairVars, completeVars>>
  /\ pc = "validate"
  /\ pc' = AfterValidate(messages)
  /\ httpError' = IF pc' = "http400" THEN "No messages provided" ELSE httpError
  /\ UNCHANGED <<request, nodes, oracleFailed, messages, lastMessage, context, llmMessages, oracleCalls,
                 llmCalls, genVars, relayVars, clientVars>>

\* chat.py 50-57: lastMessage = data.messages.pop(); role check
Extract ==
  /\ UNCHANGED <<sessionVars, pairVars, completeVars>>
  /\ pc = "extract"
  /\ lastMessage' = messages[Len(messages)]
  /\ messages' = SubSeq(messages, 1, Len(messages) - 1)
  /\ pc' = AfterExtract(lastMessage')
  /\ httpError' = IF pc' = "http400" THEN "Last message must be from user"
                                     ELSE httpError
  /\ UNCHANGED <<request, nodes, oracleFailed, context, llmMessages, oracleCalls, llmCalls, genVars,
                 relayVars, clientVars>>

\* chat.py 60, api_utils.py 22-32: the retriever answers with a node list
RetrieveFrom(answers) ==
  /\ UNCHANGED <<sessionVars, pairVars, completeVars>>
  /\ pc = "retrieve"
  /\ oracleCalls' = oracleCalls + 1
  /\ \E ns \in answers :
       /\ nodes' = ns
       /\ context' = build_context_from_index(ns)
  /\ pc' = "assemble"
  /\ UNCHANGED <<request, oracleFailed, messages, lastMessage, llmMessages, llmCalls, httpError,
                 genVars, relayVars, clientVars>>

Retrieve == RetrieveFrom(NodeLists)

\* chat.py 60, api_utils.py 25: retriever.retrieve raises; chat has no handler
RetrieveFails ==
  /\ UNCHANGED <<sessionVars, pairVars, completeVars>>
  /\ pc = "retrieve"
  /\ oracleCalls' = oracleCalls + 1
  /\ pc' = AfterRetrieveFailure
  /\ httpError' = IF pc' = "raised" THEN "retrieval" ELSE httpError
  /\ oracleFailed' = TRUE
  /\ UNCHANGED <<request, nodes, messages, lastMessage, context, llmMessages, llmCalls,
                 genVars, relayVars, clientVars>>

\* chat.py 62: messages = build_message_sequence(data, context, lastMessage)
Assemble ==
  /\ UNCHANGED <<sessionVars, pairVars, completeVars>>
  /\ pc = "assemble"
  /\ llmMessages' = build_message_sequence(messages, context, lastMessage)
  /\ pc' = "stream"
  /\ UNCHANGED <<request, nodes, oracleFailed, messages, lastMessage, context, oracleCalls, llmCalls,
                 httpError, genVars, relayVars, clientVars>>

\* chat.py 65: response = llm.stream_chat(messages): a generator object is
\* made, none of its body has run
StreamChatCall ==
  /\ UNCHANGED <<sessionVars, pairVars, completeVars>>
  /\ pc = "stream"
  /\ llmCalls' = llmCalls + 1
  /\ genPc' = "created"
  /\ pc' = "respond"
  /\ UNCHANGED <<request, nodes, oracleFailed, messages, lastMessage, context, llmMessages, oracleCalls,
                 httpError, conn, requestsSent, status, lines, lineIdx, curLine, text,
                 snaps, genError, relayVars, clientVars>>

\* chat.py 75: return StreamingResponse(event_generator(), ...); the
\* framework starts to iterate event_generator
Respond ==
  /\ UNCHANGED <<sessionVars, pairVars, completeVars>>
  /\ pc = "respond"
  /\ pc' = "streaming"
  /\ relayPc' = "pull"
  /\ UNCHANGED <<request, nodes, oracleFailed, messages, lastMessage, context, llmMessages, oracleCalls,
                 llmCalls, httpError, genVars, token, relayed, clientVars>>


\* ------------------------------------- LLMClient.stream_chat (generator)
\* Every step of the generator runs inside a pull of the relay.

\* llm_client.py 127-132: first pull; the client and the stream are opened,
\* the POST is sent and the server answers
OpenStreamFrom(lineSet) ==
  /\ UNCHANGED <<sessionVars, pairVars, completeVars>>
  /\ session = 1
  /\ relayPc = "pull"
  /\ genPc = "created"
  /\ conn' = "open"
  /\ requestsSent' = requestsSent + 1
  /\ status' \in StatusSet
  /\ lines' \in SeqsUpTo(lineSet, IF status' \in 200..299 THEN MaxLines
                                                          ELSE MaxErrorLines)
  /\ genPc' = "status"
  /\ UNCHANGED <<handlerVars, lineIdx, curLine, text, snaps, genError, relayVars,
                 clientVars>>

OpenStream == OpenStreamFrom(LineSet)

\* llm_client.py 133-134: response.raise_for_status(); text = ""
RaiseForStatus ==
  /\ UNCHANGED <<sessionVars, pairVars, completeVars>>
  /\ relayPc = "pull"
  /\ genPc = "status"
  /\ IF raises_for_status(status)
       THEN /\ genPc' = "failed"
            /\ genError' = [type |-> "HTTPStatusError", doc |-> <<>>,
                            status |-> status]
            /\ conn' = ConnAfterExit
            /\ relayPc' = RelayOnRaise
            /\ UNCHANGED text
       ELSE /\ genPc' = "reading"
            /\ text' = InitialText(text)
            /\ UNCHANGED <<genError, conn, relayPc>>
  /\ UNCHANGED <<handlerVars, requestsSent, status, lines, lineIdx, curLine, snaps,
                 token, relayed, clientVars>>

\* llm_client.py 135-161: the next line of response.iter_lines()
ProcessLine ==
  /\ UNCHANGED <<sessionVars, pairVars, completeVars>>
  /\ relayPc = "pull"
  /\ genPc = "reading"
  /\ lineIdx < Len(lines)
  /\ lineIdx' = lineIdx + 1
  /\ curLine' = IF lines[lineIdx + 1] = <<>> THEN <<>>
                ELSE StripPrefix(lines[lineIdx + 1])
  /\ LET r == LineStep(lines[lineIdx + 1], text) IN
       /\ text' = r.text
       /\ CASE r.kind = "skip" ->
                 UNCHANGED <<genPc, conn, snaps, genError, relayPc, token>>
            [] r.kind = "break" ->
                 /\ genPc' = "done"
                 /\ conn' = ConnAfterExit
                 /\ relayPc' = "done"
                 /\ UNCHANGED <<snaps, genError, token>>
            [] r.kind = "yield" ->
                 /\ genPc' = "yielded"
                 /\ snaps' = Append(snaps, ChatResponse(r.text, r.delta, r.raw))
                 /\ token' = ChatResponse(r.text, r.delta, r.raw)
                 /\ relayPc' = "got"
                 /\ UNCHANGED <<conn, genError>>
            [] r.kind = "raise" ->
                 /\ genPc' = "failed"
                 /\ genError' = r.error
                 /\ conn' = ConnAfterExit
                 /\ relayPc' = RelayOnRaise
                 /\ UNCHANGED <<snaps, token>>
  /\ UNCHANGED <<handlerVars, requestsSent, status, lines, relayed, clientVars>>

\* llm_client.py 135: iter_lines() is exhausted, the server closed the body
EndOfBody ==
  /\ UNCHANGED <<sessionVars, pairVars, completeVars>>
  /\ relayPc = "pull"
  /\ genPc = "reading"
  /\ lineIdx = Len(lines)
  /\ genPc' = "done"
  /\ conn' = ConnAfterExit
  /\ relayPc' = "done"
  /\ UNCHANGED <<handlerVars, requestsSent, status, lines, lineIdx, curLine, text,
                 snaps, genError, token, relayed, clientVars>>

\* llm_client.py 127, 135: the server sends nothing more and keeps the body
\* open; the read blocks until Timeout(request_timeout) raises ReadTimeout
ReadTimeout ==
  /\ UNCHANGED <<sessionVars, pairVars, completeVars>>
  /\ relayPc = "pull"
  /\ genPc = "reading"
  /\ lineIdx = Len(lines)
  /\ genPc' = "failed"
  /\ genError' = [type |-> "ReadTimeout", doc |-> <<>>, status |-> 0]
  /\ conn' = ConnAfterExit
  /\ relayPc' = RelayOnRaise
  /\ UNCHANGED <<handlerVars, requestsSent, status, lines, lineIdx, curLine, text,
                 snaps, token, relayed, clientVars>>

\* ------------------------------------------- chat.event_generator (relay)
\* chat.py 71-72: is_disconnected() answers True: break.  The generator is
\* left suspended at its yield.
RelayBreak ==
  /\ UNCHANGED <<sessionVars, pairVars, completeVars>>
  /\ relayPc = "got"
  /\ ShouldBreak(disconnected)
  /\ relayPc' = "done"
  /\ UNCHANGED <<handlerVars, genVars, token, relayed, clientVars>>

\* chat.py 71-73: is_disconnected() answers False: yield token.delta; the
\* loop then pulls again, which resumes the generator after its yield.
\* No other coroutine runs between the check and the yield.
RelayYield ==
  /\ UNCHANGED <<sessionVars, pairVars, completeVars>>
  /\ relayPc = "got"
  /\ ~ShouldBreak(disconnected)
  /\ relayed' = Append(relayed, RelayChunk(token))
  /\ relayPc' = "pull"
  /\ genPc' = "reading"
  /\ UNCHANGED <<handlerVars, conn, requestsSent, status, lines, lineIdx, curLine, text,
                 snaps, genError, token, clientVars>>

\* the downstream client closes its connection while the response streams
ClientDisconnect ==
  /\ UNCHANGED <<sessionVars, pairVars, completeVars>>
  /\ relayPc \in {"pull", "got"}
  /\ ~disconnected
  /\ disconnected' = TRUE
  /\ discRelayed' = Len(relayed)
  /\ discLineIdx' = lineIdx
  /\ UNCHANGED <<handlerVars, genVars, relayVars>>

\* The suspended generator is referenced by nothing once event_generator has
\* ended; when the runtime finalizes it, GeneratorExit is raised at the yield
\* and both `with` blocks (llm_client.py 127-132) close the connection.
\* The code never calls response.close(): when this happens is up to the
\* runtime.
GeneratorFinalize ==
  /\ UNCHANGED <<sessionVars, pairVars, completeVars>>
  /\ relayPc = "done"
  /\ genPc = "yielded"
  /\ genPc' = "closed"
  /\ conn' = "closed"
  /\ UNCHANGED <<handlerVars, requestsSent, status, lines, lineIdx, curLine, text,
                 snaps, genError, relayVars, clientVars>>

Next ==
  \/ Validate
  \/ Extract
  \/ Retrieve
  \/ RetrieveFails
  \/ Assemble
  \/ StreamChatCall
  \/ Respond
  \/ OpenStream
  \/ RaiseForStatus
  \/ ProcessLine
  \/ EndOfBody
  \/ ReadTimeout
  \/ RelayBreak
  \/ RelayYield
  \/ ClientDisconnect
  \/ GeneratorFinalize

Spec == Init /\ [][Next]_vars


\* ------------------------------------------------------------ properties
\* The snapshots stream_chat yields when its consumer pulls the lines ls to
\* the end: the lines are folded in order, up to the first break or raise.
RECURSIVE SnapshotsOf(_, _)
SnapshotsOf(ls, txt) ==
  IF ls = <<>> THEN <<>>
  ELSE LET r == LineStep(Head(ls), txt) IN
    CASE r.kind = "skip" -> SnapshotsOf(Tail(ls), r.text)
      [] r.kind = "yield" ->
           <<ChatResponse(r.text, r.delta, r.raw)>>
             \o SnapshotsOf(Tail(ls), r.text)
      [] OTHER -> <<>>

\* number of deltas the upstream response holds for this request
NumDeltas == IF raises_for_status(status) THEN 0 ELSE Len(SnapshotsOf(lines, ""))

\* C1: in one stream_chat session the first snapshot's accumulated text is
\* its delta, every later snapshot's accumulated text is the previous
\* snapshot's accumulated text followed by its own delta, and the length of
\* the accumulated text never decreases.
C1_MonotonicAccumulation ==
  /\ Len(snaps) > 0 => snaps[1].text = snaps[1].delta
  /\ \A i \in 2..Len(snaps) :
       /\ snaps[i].text = snaps[i - 1].text \o snaps[i].delta
       /\ Len(snaps[i].text) >= Len(snaps[i - 1].text)

C1_Witness ==
  /\ Len(snaps) = 3
  /\ snaps[1].text = "a"
  /\ snaps[2].text = "ab"
  /\ snaps[3].text = "aba"

\* C2: when the client disconnects after k chunks have been relayed and the
\* upstream holds more than k deltas, the relay emits exactly those k
\* chunks, none after the disconnect, and does not end with an error.
C2_DisconnectMidStream ==
  (disconnected /\ discRelayed < NumDeltas) =>
     /\ Len(relayed) = discRelayed
     /\ relayPc # "failed"
     /\ genError = NoError
     /\ (relayPc = "got" => Len(snaps) = discRelayed + 1)

C2_Witness ==
  /\ disconnected
  /\ discRelayed = 2
  /\ NumDeltas = 3
  /\ relayPc = "done"
  /\ relayed = <<"a", "b">>


\* C3: when the relay stops pulling before the sequence is exhausted, the
\* upstream connection is released: in no state has the relay finished
\* while the upstream connection of the request is still open.
C3_ReleasedWhenRelayFinished ==
  relayPc \in {"done", "failed"} => conn # "open"

\* C4: once the client has disconnected the relay stops pulling and releases
\* the upstream connection by its own liveness poll, also when the server
\* sends no further frame after the disconnect: the relay then ends
\* normally, it does not sit in the upstream read until that read fails.
C4_StopsWithoutFurtherFrame ==
  (/\ disconnected
   /\ discRelayed >= 1
   /\ ~raises_for_status(status)
   /\ discLineIdx = Len(lines))
     => relayPc # "failed"

\* C5: a request with an empty message list fails with HTTP 400 "No messages
\* provided" before any network call: retrieval and inference client are
\* invoked zero times and no response stream is started.
C5_EmptyConversation ==
  request = <<>> =>
     /\ pc \in {"validate", "http400"}
     /\ (pc = "http400" => httpError = "No messages provided")
     /\ oracleCalls = 0
     /\ llmCalls = 0
     /\ requestsSent = 0
     /\ relayPc = "none"
     /\ genPc = "none"

C5_Witness ==
  /\ request = <<>>
  /\ pc = "http400"
  /\ httpError = "No messages provided"

\* C6: a non-empty request passes validation iff the role of its final
\* message is user, whatever the earlier roles; otherwise it fails with
\* HTTP 400 "Last message must be from user" and neither the retrieval
\* oracle nor the inference client is invoked.
C6_LastRoleBoundary ==
  request # <<>> =>
     IF request[Len(request)].role = "user"
       THEN pc # "http400"
       ELSE /\ pc \in {"validate", "extract", "http400"}
            /\ (pc = "http400" => httpError = "Last message must be from user")
            /\ oracleCalls = 0
            /\ llmCalls = 0
            /\ requestsSent = 0
            /\ relayPc = "none"

C6_Witness ==
  /\ Len(request) = 2
  /\ request[1].role = "user"
  /\ request[2].role = "system"
  /\ pc = "http400"
  /\ httpError = "Last message must be from user"

\* the sentinel as the server writes it, with or without the line prefix
SentinelLines == {<<"[DONE]">>, <<"d", "a", "t", "a", ":", " ", "[DONE]">>}

\* index of the first sentinel line of ls, 0 if there is none
FirstSentinel(ls) ==
  IF \E i \in 1..Len(ls) : ls[i] \in SentinelLines
    THEN CHOOSE i \in 1..Len(ls) :
           /\ ls[i] \in SentinelLines
           /\ \A j \in 1..(i - 1) : ls[j] \notin SentinelLines
    ELSE 0

\* C7: when the response lines contain the sentinel, stream_chat yields
\* snapshots only for frames before it and ends successfully at it; no line
\* after the sentinel is taken, parsed or yielded.
C7_SentinelTermination ==
  LET n == FirstSentinel(lines) IN
  (n > 0 /\ ~raises_for_status(status)) =>
     /\ lineIdx <= n
     /\ Len(snaps) <= Len(SnapshotsOf(SubSeq(lines, 1, n - 1), ""))
     /\ (lineIdx = n =>
           /\ genPc = "done"
           /\ genError = NoError
           /\ conn = "closed"
           /\ relayPc = "done"
           /\ snaps = SnapshotsOf(SubSeq(lines, 1, n - 1), ""))

C7_Witness ==
  /\ Len(lines) = 3
  /\ lines[1] = <<"Jb">>
  /\ lines[2] = <<"d", "a", "t", "a", ":", " ", "[DONE]">>
  /\ lines[3] = <<"Jb">>
  /\ genPc = "done"
  /\ lineIdx = 2
  /\ Len(snaps) = 1


\* lines that hold a delta frame with role and content or role alone, and
\* lines that are neither blank, nor the sentinel, nor JSON
DeltaLines == {<<"d", "a", "t", "a", ":", " ", "Ja">>, <<"Jb">>,
               <<"d", "a", "t", "a", ":", " ", "Jr">>}
UnparsableLines == {<<"d", "a", "t", "a", ":", " ", "x">>}

\* the response is k delta frames, then an unparsable line, then anything
ValidThenUnparsable(k) ==
  /\ ~raises_for_status(status)
  /\ k < Len(lines)
  /\ \A i \in 1..k : lines[i] \in DeltaLines
  /\ lines[k + 1] \in UnparsableLines

\* what holds of the session in either reading of C8
AbortsAtUnparsable(k) ==
  /\ lineIdx <= k + 1
  /\ Len(snaps) <= k
  /\ (lineIdx = k + 1 =>
        /\ genPc = "failed"
        /\ genError.type = "JSONDecodeError"
        /\ Len(snaps) = k
        /\ snaps = SnapshotsOf(SubSeq(lines, 1, k), "")
        /\ conn = "closed")

C9_RelayInOrder ==
  /\ Len(relayed) <= Len(snaps)
  /\ Len(snaps) <= Len(relayed) + 1
  /\ \A i \in 1..Len(relayed) : relayed[i] = snaps[i].delta

C9_Witness ==
  /\ relayed = <<"a", "b", "a">>
  /\ Len(snaps) = 3

\* C10: on a non-2xx status stream_chat fails at once with the status error
\* carrying the status: no snapshot, no body line taken, exactly one request.
C10_Non2xxFailsImmediately ==
  (requestsSent > 0 /\ status \notin 200..299) =>
     /\ requestsSent = 1
     /\ snaps = <<>>
     /\ lineIdx = 0
     /\ relayed = <<>>
     /\ genPc \in {"status", "failed"}
     /\ (genPc = "failed" =>
           /\ genError.type = "HTTPStatusError"
           /\ genError.status = status
           /\ conn = "closed")

C10_Witness ==
  /\ status = 302
  /\ lines # <<>>
  /\ genPc = "failed"
  /\ genError = [type |-> "HTTPStatusError", doc |-> <<>>, status |-> 302]
  /\ requestsSent = 1


\* C11: a non-2xx status of the inference server, which is raised before any
\* chunk has been relayed, is raised before the client-facing response
\* stream is committed, not inside the stream that has already started.
C11_StatusErrorBeforeCommit ==
  genError.type = "HTTPStatusError" => pc # "streaming"

\* C12: when the inference stream raises after k chunks have been relayed,
\* the k chunks stand, no further chunk is relayed and the relay ends in a
\* fault that differs from normal completion; the relay ends normally
\* before the inference stream has ended only when the client disconnected.
C12_MidStreamFault ==
  /\ genPc = "failed" =>
       /\ genError # NoError
       /\ relayPc = "failed"
       /\ Len(relayed) = Len(snaps)
       /\ \A i \in 1..Len(relayed) : relayed[i] = snaps[i].delta
  /\ relayPc = "failed" => genPc = "failed"
  /\ (relayPc = "done" /\ genPc # "done") => disconnected

C12_Witness ==
  /\ genPc = "failed"
  /\ genError.type = "JSONDecodeError"
  /\ relayPc = "failed"
  /\ relayed = <<"a", "b">>
  /\ ~disconnected


\* ------------------------------------------------- the handler on its own
\* chat from its entry to the return of the StreamingResponse, over every
\* answer of the retriever and over messages with different contents
RetrieveAny == RetrieveFrom(AllNodeLists)

InitHandler == InitWith(AnyMessage)

NextHandler ==
  \/ Validate
  \/ Extract
  \/ RetrieveAny
  \/ RetrieveFails
  \/ Assemble
  \/ StreamChatCall
  \/ Respond

SpecHandler == InitHandler /\ [][NextHandler]_vars

\* the retriever has answered and chat has gone on
Retrieved == pc \in {"assemble", "stream", "respond", "streaming"}

\* the texts of ns with sep between them
RECURSIVE Join(_, _)
Join(ns, sep) ==
  IF ns = <<>> THEN ""
  ELSE IF Len(ns) = 1 THEN ns[1]
  ELSE ns[1] \o sep \o Join(Tail(ns), sep)

\* every text of ns followed by one space
RECURSIVE EachThenSpace(_)
EachThenSpace(ns) ==
  IF ns = <<>> THEN "" ELSE Head(ns) \o " " \o EachThenSpace(Tail(ns))

\* C13 as stated: the context is the retrieved texts in the retriever's
\* order, separated by a single space, not deduplicated, not truncated, and
\* the empty string for zero passages.
C13_ContextJoined ==
  Retrieved => context = Join(nodes, " ")

\* C13 as amended: the context is the retrieved texts in the retriever's
\* order, each followed by a single space (so it ends with a space unless
\* there is no passage), not deduplicated, not truncated, and the empty
\* string for zero passages.
C13_ContextEachThenSpace ==
  Retrieved =>
     /\ context = EachThenSpace(nodes)
     /\ (nodes = <<>> => context = "")

C13_Witness ==
  /\ Retrieved
  /\ nodes = <<"r s", "r s">>
  /\ context = "r s r s "

\* C14: for a request that passes validation the list given to
\* llm.stream_chat has the length of the request: the request's messages
\* but the last, unchanged and in order, then one user message
\* "[CONTEXT]: " + context + " [QUESTION]: " + the last message's content;
\* the last message itself is not an element of the list.
C14_MessageSequence ==
  pc \in {"stream", "respond", "streaming"} =>
     LET n == Len(request) IN
       /\ Len(llmMessages) = n
       /\ \A i \in 1..(n - 1) : llmMessages[i] = request[i]
       /\ llmMessages[n] =
            [role |-> "user",
             content |-> "[CONTEXT]: " \o context \o " [QUESTION]: "
                           \o request[n].content]
       /\ llmMessages[n] # request[n]

C14_Witness ==
  /\ pc = "stream"
  /\ request = << [role |-> "assistant", content |-> "h"],
                  [role |-> "user", content |-> "q"] >>
  /\ llmMessages = << [role |-> "assistant", content |-> "h"],
                      [role |-> "user",
                       content |-> "[CONTEXT]: p r s  [QUESTION]: q"] >>


\* C15: when the retrieval oracle fails the failure leaves chat as it is:
\* the oracle was invoked once, the inference client never, and no chunk is
\* relayed.
C15_RetrievalFailurePropagates ==
  oracleFailed =>
     /\ pc = "raised"
     /\ httpError = "retrieval"
     /\ oracleCalls = 1
     /\ llmCalls = 0
     /\ requestsSent = 0
     /\ llmMessages = <<>>
     /\ relayPc = "none"
     /\ relayed = <<>>

C15_Witness ==
  /\ oracleFailed
  /\ pc = "raised"
  /\ httpError = "retrieval"
  /\ oracleCalls = 1
  /\ Len(request) = 2

\* the session has ended by itself: sentinel, end of body, status, bad frame
SessionEnded == genPc \in {"done", "failed"}

C20_OneCallAtATime ==
  /\ oracleCalls <= 1
  /\ llmCalls <= 1
  /\ requestsSent <= 1
  /\ llmCalls <= oracleCalls
  /\ requestsSent <= llmCalls
  /\ (llmCalls = 1 => Retrieved)
  /\ (conn # "none" => (pc = "streaming" /\ oracleCalls = 1 /\ requestsSent = 1))

C20_Witness ==
  /\ conn = "open"
  /\ oracleCalls = 1
  /\ requestsSent = 1
  /\ Len(snaps) = 1


\* ---------------------------------------------- the parser on more lines
\* one request with a user message, answered with lines of ParserLineSet
OpenStreamAny == OpenStreamFrom(ParserLineSet)

InitStream == InitWith({[role |-> "user", content |-> "q"]})

NextStream ==
  \/ Validate
  \/ Extract
  \/ Retrieve
  \/ RetrieveFails
  \/ Assemble
  \/ StreamChatCall
  \/ Respond
  \/ OpenStreamAny
  \/ RaiseForStatus
  \/ ProcessLine
  \/ EndOfBody
  \/ ReadTimeout
  \/ RelayBreak
  \/ RelayYield
  \/ ClientDisconnect
  \/ GeneratorFinalize

SpecStream == InitStream /\ [][NextStream]_vars

\* the line stream_chat took last
LastLine == lines[lineIdx]

\* C17: an empty line and a line of whitespace only are both ignored: no
\* snapshot, no error, the accumulated text unchanged, reading goes on.
C17_BlankLinesIgnored ==
  (lineIdx >= 1 /\ LastLine \in {<<>>, <<" ">>}) =>
     /\ genPc # "yielded"
     /\ genError.type # "JSONDecodeError"
     /\ text = IF snaps = <<>> THEN "" ELSE snaps[Len(snaps)].text

\* frames that parse and hold no choices[0].delta.content: the delta object
\* is empty, has no content key, or is absent
NoDeltaFrames ==
  { <<"d", "a", "t", "a", ":", " ", "Je">>,
    <<"d", "a", "t", "a", ":", " ", "Jr">>,
    <<"d", "a", "t", "a", ":", " ", "Jn">> }

\* C18: a frame that parses but holds no extractable delta is skipped: no
\* snapshot for it, no error, the accumulated text unchanged, and the
\* frames after it are still processed.
C18_NoDeltaFrameSkipped ==
  (lineIdx >= 1 /\ LastLine \in NoDeltaFrames) =>
     /\ genPc # "yielded"
     /\ genError.type \notin {"AttributeError", "ValueError"}
     /\ text = IF snaps = <<>> THEN "" ELSE snaps[Len(snaps)].text

\* the line without one leading "data: ", unchanged if it does not start so
RemovePrefixOnce(l) ==
  IF Len(l) >= 6 /\ SubSeq(l, 1, 6) = <<"d", "a", "t", "a", ":", " ">>
    THEN SubSeq(l, 7, Len(l))
    ELSE l

\* C19: for every line that has text, the value compared with the sentinel
\* and parsed as JSON is the line with exactly one leading "data: " removed,
\* or the line itself if it does not start with "data: ".
C19_ExactPrefixRemoval ==
  (lineIdx >= 1 /\ LastLine \notin {<<>>, <<" ">>}) =>
     curLine = RemovePrefixOnce(LastLine)

\* ------------------------------------------------- relayed text so far
\* the strings of ss one after the other
RECURSIVE Concat(_)
Concat(ss) == IF ss = <<>> THEN "" ELSE Head(ss) \o Concat(Tail(ss))

\* C23: at every point of a chat request the chunks relayed to the client
\* so far, put one after the other, are the accumulated text of the snapshot
\* relayed last (the snapshot whose delta is the last chunk), and the empty
\* string before the first relay.
C23_RelayedIsAccumulated ==
  Concat(relayed) = IF relayed = <<>> THEN ""
                    ELSE snaps[Len(relayed)].text

C23_Witness ==
  /\ relayed = <<"a", "b">>
  /\ Len(snaps) = 3
  /\ snaps[2].text = "ab"
  /\ relayPc = "got"

\* ------------------------------ two stream_chat calls of one client object
\* chat.py 65-75 once more, after the first call's generator has ended: the
\* same LLMClient object makes a new generator and the relay iterates it.
\* The new call's local names are unbound until the body assigns them; the
\* model leaves `text` as it was until llm_client.py 134 runs.
StreamChatAgain ==
  /\ session = 1
  /\ genPc \in {"done", "failed"}
  /\ relayPc \in {"done", "failed"}
  /\ session' = 2
  /\ firstStatus' = status
  /\ firstLines' = lines
  /\ firstSnaps' = snaps
  /\ llmCalls' = llmCalls + 1
  /\ genPc' = "created"
  /\ conn' = "none"
  /\ status' = 0
  /\ lines' = <<>>
  /\ lineIdx' = 0
  /\ curLine' = <<>>
  /\ snaps' = <<>>
  /\ genError' = NoError
  /\ relayPc' = "pull"
  /\ token' = NoToken
  /\ relayed' = <<>>
  /\ UNCHANGED <<request, nodes, oracleFailed, pc, messages, lastMessage,
                 context, llmMessages, oracleCalls, httpError, requestsSent,
                 text, clientVars, pairVars, completeVars>>

\* llm_client.py 127-132 in the second call: the server answers with the
\* status and the lines it answered the first call with
OpenStreamSame ==
  /\ session = 2
  /\ relayPc = "pull"
  /\ genPc = "created"
  /\ conn' = "open"
  /\ requestsSent' = requestsSent + 1
  /\ status' = firstStatus
  /\ lines' = firstLines
  /\ genPc' = "status"
  /\ UNCHANGED <<handlerVars, lineIdx, curLine, text, snaps, genError,
                 relayVars, clientVars, sessionVars, pairVars, completeVars>>

NextSessions ==
  \/ Validate
  \/ Extract
  \/ Retrieve
  \/ Assemble
  \/ StreamChatCall
  \/ Respond
  \/ OpenStream
  \/ RaiseForStatus
  \/ ProcessLine
  \/ EndOfBody
  \/ ReadTimeout
  \/ RelayYield
  \/ StreamChatAgain
  \/ OpenStreamSame

SpecSessions == InitStream /\ [][NextSessions]_vars

\* C21: a second stream_chat session of the same client object, fed the
\* frames the first session was fed, yields the same sequence of
\* (accumulated text, delta) snapshots as the first, and what a session
\* yields is determined by its own status and frames alone.
C21_SameFramesSameSnapshots ==
  (session = 2 /\ genPc \in {"done", "failed"}) =>
     /\ snaps = firstSnaps
     /\ snaps = IF raises_for_status(status) THEN <<>>
                ELSE SnapshotsOf(lines, "")

C21_Witness ==
  /\ session = 2
  /\ genPc = "done"
  /\ lines = <<<<"d", "a", "t", "a", ":", " ", "Ja">>, <<"Jb">>,
               <<"d", "a", "t", "a", ":", " ", "[DONE]">>>>
  /\ firstLines = lines
  /\ Len(firstSnaps) = 2
  /\ firstSnaps[2].text = "ab"
  /\ snaps = firstSnaps

\* ------------------------------------------- two requests at the same time
\* Both requests have passed chat.py 65: each has its generator, not yet run.
\* The steps of the two requests interleave in any order.

\* the lines a response is made of when two requests run together
PairLineSet ==
  { <<"d", "a", "t", "a", ":", " ", "Ja">>,
    <<"Jb">>,
    <<"d", "a", "t", "a", ":", " ", "[DONE]">>,
    <<"d", "a", "t", "a", ":", " ", "x">> }

PairStatusSet == {200, 503}

InitPair == InitWith({})

\* llm_client.py 127-134: the first pull of request r up to `text = ""`: the
\* client and the stream are opened, the server answers, raise_for_status
PairOpen(r) ==
  /\ sess[r].genPc = "created"
  /\ \E st \in PairStatusSet, ls \in SeqsUpTo(PairLineSet, MaxPairLines) :
       LET c == ClientOf(r) IN
         /\ pconn' = [pconn EXCEPT ![c] =
                        [state |-> IF raises_for_status(st) THEN ConnAfterExit
                                                            ELSE "open",
                         lines |-> ls, idx |-> 0]]
         /\ sess' = [sess EXCEPT ![r] =
                       [@ EXCEPT !.conn = c, !.status = st, !.body = ls,
                                 !.genPc = IF raises_for_status(st)
                                             THEN "failed" ELSE "reading",
                                 !.text = IF raises_for_status(st)
                                            THEN @ ELSE InitialText(@)]]
  /\ UNCHANGED <<handlerVars, genVars, relayVars, clientVars, sessionVars,
                 completeVars>>

\* llm_client.py 135-161, chat.py 70-73: request r takes the next line of
\* its connection; a yielded snapshot is relayed as its delta
PairLine(r) ==
  /\ sess[r].genPc = "reading"
  /\ LET c == sess[r].conn
         k == pconn[c].idx + 1
     IN /\ k <= Len(pconn[c].lines)
        /\ LET res == LineStep(pconn[c].lines[k], sess[r].text)
               ended == res.kind \in {"break", "raise"}
           IN /\ pconn' = [pconn EXCEPT ![c] =
                             [@ EXCEPT !.idx = k,
                                       !.state = IF ended THEN ConnAfterExit
                                                          ELSE @]]
              /\ sess' = [sess EXCEPT ![r] =
                   [@ EXCEPT
                      !.text = res.text,
                      !.genPc = CASE res.kind = "break" -> "done"
                                  [] res.kind = "raise" -> "failed"
                                  [] OTHER -> @,
                      !.snaps = IF res.kind = "yield"
                                  THEN Append(@, ChatResponse(res.text,
                                                   res.delta, res.raw))
                                  ELSE @,
                      !.relayed = IF res.kind = "yield"
                                    THEN Append(@, RelayChunk(ChatResponse(
                                              res.text, res.delta, res.raw)))
                                    ELSE @]]
  /\ UNCHANGED <<handlerVars, genVars, relayVars, clientVars, sessionVars,
                 completeVars>>

\* llm_client.py 135: the connection of request r has no more lines
PairEnd(r) ==
  /\ sess[r].genPc = "reading"
  /\ LET c == sess[r].conn IN
       /\ pconn[c].idx = Len(pconn[c].lines)
       /\ pconn' = [pconn EXCEPT ![c] = [@ EXCEPT !.state = ConnAfterExit]]
  /\ sess' = [sess EXCEPT ![r] = [@ EXCEPT !.genPc = "done"]]
  /\ UNCHANGED <<handlerVars, genVars, relayVars, clientVars, sessionVars,
                 completeVars>>

NextPair ==
  \/ \E r \in Req : PairOpen(r)
  \/ \E r \in Req : PairLine(r)
  \/ \E r \in Req : PairEnd(r)

SpecPair == InitPair /\ [][NextPair]_vars

\* what request r yields when it runs alone and is answered as it was
Alone(r) ==
  IF raises_for_status(sess[r].status) THEN <<>>
  ELSE SnapshotsOf(sess[r].body, "")

\* C22: with the steps of two concurrent requests interleaved in any order,
\* each request's snapshots (accumulated text and delta) and relayed chunks
\* are at every point a prefix of what the request yields when it runs
\* alone, and all of it once the request has ended; the two requests never
\* use the same connection.
C22_ConcurrentRequestsIndependent ==
  /\ \A r \in Req :
       /\ Len(sess[r].snaps) <= Len(Alone(r))
       /\ Len(sess[r].relayed) = Len(sess[r].snaps)
       /\ \A i \in 1..Len(sess[r].snaps) :
            /\ sess[r].snaps[i] = Alone(r)[i]
            /\ sess[r].relayed[i] = Alone(r)[i].delta
       /\ sess[r].genPc \in {"done", "failed"} => sess[r].snaps = Alone(r)
  /\ (sess[1].conn # 0 /\ sess[2].conn # 0) => sess[1].conn # sess[2].conn

C22_Witness ==
  /\ sess[1].genPc = "reading"
  /\ sess[2].genPc = "done"
  /\ sess[1].relayed = <<"a">>
  /\ sess[2].relayed = <<"b", "a">>
  /\ Len(sess[1].body) = 2
  /\ pconn[sess[1].conn].idx = 1

\* ------------------------------- stream_complete and astream_complete
\* The two completion generators are given the same prompt and the server
\* answers both with the same status and the same lines.

\* the JSON chunks of a completion stream: {"response": "a"},
\* {"response": "b"} and an object without the key "response"
CompleteBody ==
  [ Ra |-> [hasResponse |-> TRUE,  response |-> "a"],
    Rb |-> [hasResponse |-> TRUE,  response |-> "b"],
    Rn |-> [hasResponse |-> FALSE, response |-> ""] ]

CompleteTokens == DOMAIN CompleteBody

\* the lines of a completion response: blank, the chunks, one that is
\* not JSON
CompleteLineSet == {"", "Ra", "Rb", "Rn", "x"}

CompleteStatusSet == {200, 503}

\* how response.aiter_text() cuts the body: after the next line, after the
\* line that follows it, or inside the next line
ChunkCuts == {"line", "merged", "partial"}

\* llm_client.py 280, 283: text += delta; text=text
SyncText(txt, delta) == txt \o delta

\* llm_client.py 314: text=delta
AsyncText(txt, delta) == delta

\* llm_client.py 256, 289: both generators are made for the prompt
CompleteCall ==
  /\ syncC.pc = "none"
  /\ asyncC.pc = "none"
  /\ \E st \in CompleteStatusSet :
       \E ls \in SeqsUpTo(CompleteLineSet,
                          IF raises_for_status(st) THEN MaxErrorLines
                                                   ELSE MaxLines) :
         cInput' = [status |-> st, lines |-> ls]
  /\ syncC' = [syncC EXCEPT !.pc = "created"]
  /\ asyncC' = [asyncC EXCEPT !.pc = "created"]
  /\ UNCHANGED <<handlerVars, genVars, relayVars, clientVars, sessionVars,
                 pairVars>>

\* llm_client.py 268-275: the stream is opened, raise_for_status, text = ""
SyncOpen ==
  /\ syncC.pc = "created"
  /\ syncC' = IF raises_for_status(cInput.status)
                THEN [syncC EXCEPT !.pc = "failed",
                                   !.error = "HTTPStatusError"]
                ELSE [syncC EXCEPT !.pc = "reading", !.text = ""]
  /\ UNCHANGED <<handlerVars, genVars, relayVars, clientVars, sessionVars,
                 pairVars, cInput, asyncC>>

\* llm_client.py 276-286: the next line of response.iter_lines()
SyncLine ==
  /\ syncC.pc = "reading"
  /\ syncC.idx < Len(cInput.lines)
  /\ LET line == cInput.lines[syncC.idx + 1] IN
       syncC' =
         IF line = "" THEN [syncC EXCEPT !.idx = @ + 1]
         ELSE IF line \notin CompleteTokens
           THEN [syncC EXCEPT !.idx = @ + 1, !.pc = "failed",
                              !.error = "JSONDecodeError"]
         ELSE IF ~CompleteBody[line].hasResponse
           \* delta is None and str += None
           THEN [syncC EXCEPT !.idx = @ + 1, !.pc = "failed",
                              !.error = "TypeError"]
         ELSE LET delta == CompleteBody[line].response
                  newText == SyncText(syncC.text, delta)
              IN [syncC EXCEPT !.idx = @ + 1, !.text = newText,
                     !.snaps = Append(@, [text |-> newText, delta |-> delta,
                                          raw |-> line])]
  /\ UNCHANGED <<handlerVars, genVars, relayVars, clientVars, sessionVars,
                 pairVars, cInput, asyncC>>

\* llm_client.py 276: iter_lines() is exhausted
SyncEnd ==
  /\ syncC.pc = "reading"
  /\ syncC.idx = Len(cInput.lines)
  /\ syncC' = [syncC EXCEPT !.pc = "done"]
  /\ UNCHANGED <<handlerVars, genVars, relayVars, clientVars, sessionVars,
                 pairVars, cInput, asyncC>>

\* llm_client.py 302-307: the stream is opened; the status is not looked at
AsyncOpen ==
  /\ asyncC.pc = "created"
  /\ asyncC' = [asyncC EXCEPT !.pc = "reading"]
  /\ UNCHANGED <<handlerVars, genVars, relayVars, clientVars, sessionVars,
                 pairVars, cInput, syncC>>

\* llm_client.py 308-318: the next piece of response.aiter_text().  Where
\* the body is cut into pieces is up to the transport.  A piece that is one
\* line, or one line and a blank line, parses as that line; two chunks in
\* one piece, a part of a line, a blank piece and a line that is not JSON
\* make json.loads raise.  A chunk without "response" gives text=None, and
\* what CompletionResponse does with it is outside src/: it raises or it
\* is yielded.
AsyncChunk ==
  /\ asyncC.pc = "reading"
  /\ asyncC.idx < Len(cInput.lines)
  /\ \E cut \in ChunkCuts, accepted \in BOOLEAN :
       LET l1 == cInput.lines[asyncC.idx + 1]
           parses == CASE cut = "line" -> l1 \in CompleteTokens
                       [] cut = "merged" ->
                            /\ l1 \in CompleteTokens
                            /\ cInput.lines[asyncC.idx + 2] = ""
                       [] OTHER -> FALSE
           used == IF cut = "merged" THEN 2 ELSE 1
       IN /\ cut = "merged" => asyncC.idx + 2 <= Len(cInput.lines)
          /\ cut = "partial" => l1 # ""
          /\ asyncC' =
               IF ~parses
                 THEN [asyncC EXCEPT !.idx = @ + used, !.pc = "failed",
                                     !.error = "JSONDecodeError",
                                     !.lineCuts = @ /\ cut = "line"]
               ELSE IF ~CompleteBody[l1].hasResponse /\ ~accepted
                 THEN [asyncC EXCEPT !.idx = @ + used, !.pc = "failed",
                                     !.error = "ValidationError",
                                     !.lineCuts = @ /\ cut = "line"]
               ELSE LET delta == IF CompleteBody[l1].hasResponse
                                   THEN CompleteBody[l1].response ELSE "None"
                        newText == AsyncText(asyncC.text, delta)
                    IN [asyncC EXCEPT !.idx = @ + used, !.text = newText,
                          !.snaps = Append(@, [text |-> newText,
                                               delta |-> delta, raw |-> l1]),
                          !.lineCuts = @ /\ cut = "line"]
  /\ UNCHANGED <<handlerVars, genVars, relayVars, clientVars, sessionVars,
                 pairVars, cInput, syncC>>

\* llm_client.py 308: aiter_text() is exhausted
AsyncEnd ==
  /\ asyncC.pc = "reading"
  /\ asyncC.idx = Len(cInput.lines)
  /\ asyncC' = [asyncC EXCEPT !.pc = "done"]
  /\ UNCHANGED <<handlerVars, genVars, relayVars, clientVars, sessionVars,
                 pairVars, cInput, syncC>>

NextComplete ==
  \/ CompleteCall
  \/ SyncOpen
  \/ SyncLine
  \/ SyncEnd
  \/ AsyncOpen
  \/ AsyncChunk
  \/ AsyncEnd

SpecComplete == InitPair /\ [][NextComplete]_vars

\* the deltas of the first k snapshots of ss, one after the other
DeltasUpTo(ss, k) == Concat([i \in 1..k |-> ss[i].delta])

\* C24: for the same non-empty response lines, handed to astream_complete
\* one line at a time, astream_complete yields the snapshots stream_complete
\* yields; in both, the text of every snapshot is all deltas received so
\* far, one after the other; and on a non-2xx status both fail without
\* yielding a snapshot.
C24_AsyncMatchesSync ==
  ( /\ syncC.pc \in {"done", "failed"}
    /\ asyncC.pc \in {"done", "failed"}
    /\ asyncC.lineCuts
    /\ \A i \in 1..Len(cInput.lines) : cInput.lines[i] # "" )
  =>
    /\ asyncC.snaps = syncC.snaps
    /\ \A k \in 1..Len(syncC.snaps) :
         syncC.snaps[k].text = DeltasUpTo(syncC.snaps, k)
    /\ \A k \in 1..Len(asyncC.snaps) :
         asyncC.snaps[k].text = DeltasUpTo(asyncC.snaps, k)
    /\ raises_for_status(cInput.status) =>
         /\ syncC.pc = "failed" /\ syncC.snaps = <<>>
         /\ asyncC.pc = "failed" /\ asyncC.snaps = <<>>

====
